---- MODULE Spec2Model ----
(***************************************************************************)
(* The execution context of ghx (src/ghx/context/execution.go): the        *)
(* workflow / job / step run state machine, the layered Env, the Needs     *)
(* and Steps expression contexts and the workflow conclusion.              *)
(*                                                                         *)
(* Go reference semantics are kept where the code shares an object:        *)
(*   - c.Env and WorkflowRun.Workflow.Env are one map object (line 34),    *)
(*     so every write through c.Env is a write to the workflow's env;      *)
(*   - JobRun.Outputs, the copy of it in WorkflowRun.Jobs and              *)
(*     NeedContext.Outputs are references to the map the caller handed to  *)
(*     SetJobResults (lines 147, 70, 109, 97).                             *)
(* Map objects live in mem, and the fields hold references into it.        *)
(* Structs copied by value (Jobs[id] = *jr, append(Steps, *sr)) are        *)
(* records.  The maps of a StepRun are allocated by the caller for each    *)
(* SetStep and are held as values.                                         *)
(* A nil pointer dereference ends the process: ret = "panic", and no       *)
(* operation follows it.                                                   *)
(* SetAction / UnsetAction (lines 293-299) only store a reference that     *)
(* nothing here reads; they are left out.                                  *)
(***************************************************************************)
EXTENDS Naturals, Sequences, FiniteSets, TLC

VARIABLES
    Execution,   \* c.Execution: [WorkflowRun, JobRun, StepRun], Nil when unset
    Env,         \* c.Env: a reference to a map object
    GithubJob,   \* c.Github.Job
    Job,         \* c.Job: [Status]
    Steps,       \* c.Steps: step ID -> StepContext
    Needs,       \* c.Needs: job ID -> NeedContext
    Matrix,      \* c.Matrix
    mem,         \* the map objects: reference -> contents
    last,        \* the last call: [op, args, ret, value, tried, wrote]
    declared     \* history: contents of Workflow.Env when SetWorkflow was called

vars == <<Execution, Env, GithubJob, Job, Steps, Needs, Matrix, mem, last, declared>>

----------------------------------------------------------------------------
(* Bounds of the model *)

\* JobRun.Steps grows by one on every UnsetStep; SetStep is offered while it is shorter.
MaxSteps == 2
\* StepRun.Path grows by one on every AddStepPath.
MaxPath == 1
\* Number of map objects the caller holds to pass as job outputs.
MaxMaps == 2
\* PATH grows by the entries of every path file; it is let grow to this many segments.
MaxPathEntries == 3

----------------------------------------------------------------------------
(* Values *)

ConclusionSuccess == "success"
ConclusionFailure == "failure"
ConclusionCancelled == "cancelled"
ConclusionSkipped == "skipped"
ConclusionNeutral == "neutral"

Conclusions ==
    {ConclusionSuccess, ConclusionFailure, ConclusionCancelled, ConclusionSkipped,
     ConclusionNeutral}

\* The zero value of core.Conclusion, a string type.
ZeroConclusion == ""

StepStageSetup == "setup"
StepStagePre == "pre"
StepStageMain == "main"
StepStagePost == "post"
StepStageComplete == "complete"

Stages == {StepStageSetup, StepStagePre, StepStageMain, StepStagePost, StepStageComplete}

ErrNoWorkflow == "no workflow is set"
ErrNoJob == "no job is set"
ErrNoStep == "no step is set"
Ok == "ok"
Panic == "panic"
\* UnsetStep returned at once: there was no step to retire.
NoOp == "no-op"

\* A nil pointer.
Nil == [nil |-> TRUE]

\* A nil map reference; reading it yields no entry.
NilMap == <<"nil">>

\* The map object of the installed WorkflowRun's Workflow.Env.
WfEnvRef == <<"workflow.env">>

\* The map objects the caller passes as job outputs.
OutputRefs == {<<"outputs", i>> : i \in 1..MaxMaps}

\* Every map object.
MapRefs == {WfEnvRef} \cup OutputRefs

\* The environment of the process (os.Setenv, os.Getenv).  A value is held as the
\* sequence of its ':'-separated segments: "/usr/bin:/a" is <<"/usr/bin", "/a">>.
ProcEnvRef == <<"os.environ">>

\* The segments of a string that holds no ':'.
Segments(v) == <<v>>

\* PATH when the process starts.
InitialPath == Segments("/usr/bin")

EmptyMap == [k \in {} |-> ""]

\* m[k] = v on a Go map
MapPut(m, k, v) == [x \in DOMAIN m \cup {k} |-> IF x = k THEN v ELSE m[x]]

\* for k, v := range over { m[k] = v }
MapMerge(m, over) ==
    [x \in DOMAIN m \cup DOMAIN over |-> IF x \in DOMAIN over THEN over[x] ELSE m[x]]

\* Contents read through a map reference.
Deref(r) == IF r = NilMap THEN EmptyMap ELSE mem[r]

----------------------------------------------------------------------------
(* The shapes of the runs a caller passes in *)

\* The i-th map object the caller holds for job outputs.
OutputRef(i) == <<"outputs", i>>

\* A WorkflowRun as handed to SetWorkflow, carrying the conclusion c.
\* Its Jobs map is allocated and empty, its Workflow.Env a map object of its own.
WorkflowRun(c) ==
    [Conclusion |-> c, Jobs |-> EmptyMap, Workflow |-> [Env |-> WfEnvRef]]

\* A JobRun as handed to SetJob: the job definition and the matrix combination,
\* the result fields at their zero values.
JobRun(id, env, needs, matrix) ==
    [Job |-> [ID |-> id, Env |-> env, Needs |-> needs],
     Matrix |-> matrix,
     Conclusion |-> ZeroConclusion,
     Outcome |-> ZeroConclusion,
     Outputs |-> NilMap,
     Steps |-> <<>>]

\* A StepRun as handed to SetStep for a stage of a step: maps allocated and empty.
StepRun(id, env, continueOnError, stage) ==
    [Step |-> [ID |-> id, Environment |-> env, ContinueOnError |-> continueOnError],
     Stage |-> stage,
     Conclusion |-> ZeroConclusion,
     Outcome |-> ZeroConclusion,
     Outputs |-> EmptyMap,
     State |-> EmptyMap,
     Summary |-> "",
     Environment |-> EmptyMap,
     Path |-> <<>>]

\* The zero JobRun, what a lookup of a missing key in WorkflowRun.Jobs returns.
ZeroJobRun ==
    [Job |-> [ID |-> "", Env |-> EmptyMap, Needs |-> {}],
     Matrix |-> EmptyMap,
     Conclusion |-> ZeroConclusion,
     Outcome |-> ZeroConclusion,
     Outputs |-> NilMap,
     Steps |-> <<>>]

\* The zero StepContext.
ZeroStepContext ==
    [State |-> EmptyMap, Summary |-> "", Outputs |-> EmptyMap,
     Outcome |-> ZeroConclusion, Conclusion |-> ZeroConclusion]

----------------------------------------------------------------------------
(* State after construction of the Context *)

Init ==
    /\ Execution = [WorkflowRun |-> Nil, JobRun |-> Nil, StepRun |-> Nil]
    /\ Env = NilMap
    /\ GithubJob = ""
    /\ Job = [Status |-> ZeroConclusion]
    /\ Steps = EmptyMap
    /\ Needs = EmptyMap
    /\ Matrix = EmptyMap
    /\ mem = [r \in MapRefs |-> EmptyMap] @@ (ProcEnvRef :> ("PATH" :> InitialPath))
    /\ last = [op |-> "New", args |-> <<>>, ret |-> Ok, value |-> Nil, tried |-> {},
               wrote |-> {}]
    /\ declared = EmptyMap

\* The process has not panicked.
Alive == last.ret # Panic

\* What the call leaves to see: its name and arguments, the error and the value it
\* returned, the files it tried to write and those it wrote.
Called(name, args, r, value, tried, wrote) ==
    last' = [op |-> name, args |-> args, ret |-> r, value |-> value, tried |-> tried,
             wrote |-> wrote]

Returned(name, r) == Called(name, <<>>, r, Nil, {}, {})

\* The call dereferenced a nil pointer before it changed anything.
Panicked(name) ==
    /\ Returned(name, Panic)
    /\ UNCHANGED <<Execution, Env, GithubJob, Job, Steps, Needs, Matrix, mem, declared>>

\* The call returned the error e; it changed nothing.
Failed(name, e) ==
    /\ Returned(name, e)
    /\ UNCHANGED <<Execution, Env, GithubJob, Job, Steps, Needs, Matrix, mem, declared>>

----------------------------------------------------------------------------
(* Workflow *)

\* SetWorkflow without line 28: the conclusion the run carries is kept.
SetWorkflowKeepingConclusion(wr, env) ==
    /\ Alive
    /\ Execution' = [WorkflowRun |-> wr, JobRun |-> Nil, StepRun |-> Nil]
    /\ Env' = wr.Workflow.Env
    /\ mem' = [mem EXCEPT ![wr.Workflow.Env] = env]
    /\ declared' = env
    /\ Returned("SetWorkflow", Ok)
    /\ UNCHANGED <<GithubJob, Job, Steps, Needs, Matrix>>

\* wr: the run; env: the contents of the map object wr.Workflow.Env
SetWorkflow(wr, env) ==
    /\ Alive
    /\ Execution' = [WorkflowRun |-> [wr EXCEPT !.Conclusion = ConclusionSuccess],
                     JobRun |-> Nil,
                     StepRun |-> Nil]
    /\ Env' = wr.Workflow.Env
    /\ mem' = [mem EXCEPT ![wr.Workflow.Env] = env]
    /\ declared' = env
    /\ Returned("SetWorkflow", Ok)
    /\ UNCHANGED <<GithubJob, Job, Steps, Needs, Matrix>>

\* okReport, okCopy: whether fs.WriteJSONFile and fs.CopyFile succeed
UnsetWorkflow(okReport, okCopy) ==
    /\ Alive
    /\ IF Execution.WorkflowRun = Nil
       THEN /\ Called("UnsetWorkflow", <<>>, Panic, Nil, {"workflow_run.json"},
                       IF okReport THEN {"workflow_run.json"} ELSE {})
            /\ UNCHANGED <<Execution, Env, GithubJob, Job, Steps, Needs, Matrix, mem,
                           declared>>
       ELSE /\ Called("UnsetWorkflow", <<>>, Ok, Nil,
                       {"workflow_run.json", "workflow.yaml"},
                       (IF okReport THEN {"workflow_run.json"} ELSE {})
                       \cup (IF okCopy THEN {"workflow.yaml"} ELSE {}))
            /\ UNCHANGED <<Execution, Env, GithubJob, Job, Steps, Needs, Matrix, mem,
                           declared>>

----------------------------------------------------------------------------
(* Job *)

\* c.Execution.WorkflowRun.Jobs[id], the zero JobRun when id is no key
JobsLookup(jobs, id) == IF id \in DOMAIN jobs THEN jobs[id] ELSE ZeroJobRun

\* The loop over jr.Job.Needs: each entry is stored under the ID of the record found.
NeedsOf(jobs, needs) ==
    [k \in {JobsLookup(jobs, n).Job.ID : n \in needs} |->
        LET need == JobsLookup(jobs, CHOOSE n \in needs : JobsLookup(jobs, n).Job.ID = k)
        IN  [Result |-> need.Conclusion, Outputs |-> need.Outputs]]

\* SetJob that starts every job with the status success.
SetJobStartingSuccessful(jr) ==
    /\ Alive
    /\ IF Execution.WorkflowRun = Nil
       THEN Failed("SetJob", ErrNoWorkflow)
       ELSE LET jobs == MapPut(Execution.WorkflowRun.Jobs, jr.Job.ID, jr) IN
            /\ Execution' = [Execution EXCEPT !.JobRun = jr, !.WorkflowRun.Jobs = jobs]
            /\ GithubJob' = jr.Job.ID
            /\ mem' = [mem EXCEPT ![Env] = MapMerge(@, jr.Job.Env)]
            /\ Matrix' = IF Cardinality(DOMAIN jr.Matrix) > 0 THEN jr.Matrix ELSE Matrix
            /\ Job' = [Status |-> ConclusionSuccess]
            /\ Steps' = EmptyMap
            /\ Needs' = NeedsOf(jobs, jr.Job.Needs)
            /\ Returned("SetJob", Ok)
            /\ UNCHANGED <<Env, declared>>

SetJob(jr) ==
    /\ Alive
    /\ IF Execution.WorkflowRun = Nil
       THEN Failed("SetJob", ErrNoWorkflow)
       ELSE LET jobs == MapPut(Execution.WorkflowRun.Jobs, jr.Job.ID, jr) IN
            /\ Execution' = [Execution EXCEPT !.JobRun = jr, !.WorkflowRun.Jobs = jobs]
            /\ GithubJob' = jr.Job.ID
            /\ mem' = [mem EXCEPT ![Env] = MapMerge(@, jr.Job.Env)]
            /\ Matrix' = IF Cardinality(DOMAIN jr.Matrix) > 0 THEN jr.Matrix ELSE Matrix
            /\ Job' = [Status |-> Execution.WorkflowRun.Conclusion]
            /\ Steps' = EmptyMap
            /\ Needs' = NeedsOf(jobs, jr.Job.Needs)
            /\ Returned("SetJob", Ok)
            /\ UNCHANGED <<Env, declared>>

\* The last job that does not succeed decides, instead of the first.
LastConclusion(wc, jc) == IF jc # ConclusionSuccess THEN jc ELSE wc

\* The workflow conclusion after a job with conclusion jc retires.
UpdatedConclusion(wc, jc) ==
    IF wc = ConclusionSuccess /\ jc # ConclusionSuccess THEN jc ELSE wc

\* UnsetJob that leaves the record of the job in the job map as SetJob stored it.
UnsetJobWithoutWriteBack(okReport) ==
    /\ Alive
    /\ IF Execution.JobRun = Nil
       THEN Panicked("UnsetJob")
       ELSE LET jr == Execution.JobRun IN
            /\ Execution' =
                  [Execution EXCEPT
                     !.WorkflowRun.Conclusion = UpdatedConclusion(@, jr.Conclusion),
                     !.JobRun = Nil]
            /\ GithubJob' = ""
            /\ Env' = Execution.WorkflowRun.Workflow.Env
            /\ Matrix' = EmptyMap
            /\ Called("UnsetJob", <<>>, Ok, Nil, {"job_run.json"},
                       IF okReport THEN {"job_run.json"} ELSE {})
            /\ UNCHANGED <<Job, Steps, Needs, mem, declared>>

\* UnsetJob that returns when the report cannot be written, the job still active.
UnsetJobAbortingOnFailure(okReport) ==
    /\ Alive
    /\ IF Execution.JobRun = Nil
       THEN Panicked("UnsetJob")
       ELSE LET jr == Execution.JobRun IN
            /\ Execution' =
                  [Execution EXCEPT
                     !.WorkflowRun.Jobs = MapPut(@, jr.Job.ID, jr),
                     !.WorkflowRun.Conclusion = UpdatedConclusion(@, jr.Conclusion),
                     !.JobRun = IF okReport THEN Nil ELSE @]
            /\ GithubJob' = ""
            /\ Env' = Execution.WorkflowRun.Workflow.Env
            /\ Matrix' = EmptyMap
            /\ Called("UnsetJob", <<>>, Ok, Nil, {"job_run.json"},
                       IF okReport THEN {"job_run.json"} ELSE {})
            /\ UNCHANGED <<Job, Steps, Needs, mem, declared>>

\* okReport: whether fs.WriteJSONFile succeeds
UnsetJob(okReport) ==
    /\ Alive
    /\ IF Execution.JobRun = Nil
       THEN Panicked("UnsetJob")
       ELSE LET jr == Execution.JobRun IN
            /\ Execution' =
                  [Execution EXCEPT
                     !.WorkflowRun.Jobs = MapPut(@, jr.Job.ID, jr),
                     !.WorkflowRun.Conclusion = UpdatedConclusion(@, jr.Conclusion),
                     !.JobRun = Nil]
            /\ GithubJob' = ""
            /\ Env' = Execution.WorkflowRun.Workflow.Env
            /\ Matrix' = EmptyMap
            /\ Called("UnsetJob", <<>>, Ok, Nil, {"job_run.json"},
                       IF okReport THEN {"job_run.json"} ELSE {})
            /\ UNCHANGED <<Job, Steps, Needs, mem, declared>>

\* SetJobResults that wants an active step as well.
SetJobResultsInStep(conclusion, outcome, outputs) ==
    /\ Alive
    /\ UNCHANGED <<Env, GithubJob, Steps, Needs, Matrix, mem, declared>>
    /\ IF Execution.JobRun = Nil \/ Execution.StepRun = Nil
       THEN /\ Called("SetJobResults", <<conclusion, outcome, outputs>>, ErrNoJob, Nil,
                       {}, {})
            /\ UNCHANGED <<Execution, Job>>
       ELSE /\ Execution' = [Execution EXCEPT !.JobRun.Conclusion = conclusion,
                                              !.JobRun.Outcome = outcome,
                                              !.JobRun.Outputs = outputs]
            /\ Job' = [Job EXCEPT !.Status = conclusion]
            /\ Called("SetJobResults", <<conclusion, outcome, outputs>>, Ok, Nil, {}, {})

\* SetJobResults that leaves the status of the job context as it is.
SetJobResultsKeepingStatus(conclusion, outcome, outputs) ==
    /\ Alive
    /\ UNCHANGED <<Env, GithubJob, Job, Steps, Needs, Matrix, mem, declared>>
    /\ IF Execution.JobRun = Nil
       THEN /\ Called("SetJobResults", <<conclusion, outcome, outputs>>, ErrNoJob, Nil,
                       {}, {})
            /\ UNCHANGED Execution
       ELSE /\ Execution' = [Execution EXCEPT !.JobRun.Conclusion = conclusion,
                                              !.JobRun.Outcome = outcome,
                                              !.JobRun.Outputs = outputs]
            /\ Called("SetJobResults", <<conclusion, outcome, outputs>>, Ok, Nil, {}, {})

\* outputs: a reference to the caller's map
SetJobResults(conclusion, outcome, outputs) ==
    /\ Alive
    /\ UNCHANGED <<Env, GithubJob, Steps, Needs, Matrix, mem, declared>>
    /\ IF Execution.JobRun = Nil
       THEN /\ Called("SetJobResults", <<conclusion, outcome, outputs>>, ErrNoJob, Nil,
                       {}, {})
            /\ UNCHANGED <<Execution, Job>>
       ELSE /\ Execution' = [Execution EXCEPT !.JobRun.Conclusion = conclusion,
                                              !.JobRun.Outcome = outcome,
                                              !.JobRun.Outputs = outputs]
            /\ Job' = [Job EXCEPT !.Status = conclusion]
            /\ Called("SetJobResults", <<conclusion, outcome, outputs>>, Ok, Nil, {}, {})

\* The caller writes key k of a map object it passed, or will pass, as job outputs.
CallerWritesOutputs(r, k, v) ==
    /\ Alive
    /\ mem' = [mem EXCEPT ![r] = MapPut(@, k, v)]
    /\ Returned("CallerWritesOutputs", Ok)
    /\ UNCHANGED <<Execution, Env, GithubJob, Job, Steps, Needs, Matrix, declared>>

----------------------------------------------------------------------------
(* Step *)

\* The StepRun records held in the histories of the workflow run: those of the
\* active JobRun and those of the other jobs' records.
RECURSIVE HeldIn(_, _)
HeldIn(jobs, ids) ==
    IF ids = {} THEN 0
    ELSE LET id == CHOOSE i \in ids : TRUE
         IN  Len(jobs[id].Steps) + HeldIn(jobs, ids \ {id})

HeldSteps ==
    LET jr == Execution.JobRun
        jobs == Execution.WorkflowRun.Jobs
    IN  Len(jr.Steps) + HeldIn(jobs, DOMAIN jobs \ {jr.Job.ID})

\* SetStep that stores the step before it looks for the job.
SetStepAssigningFirst(sr) ==
    /\ Alive
    /\ IF Execution.JobRun = Nil
       THEN /\ Execution' = [Execution EXCEPT !.StepRun = sr]
            /\ Returned("SetStep", ErrNoJob)
            /\ UNCHANGED <<Env, GithubJob, Job, Steps, Needs, Matrix, mem, declared>>
       ELSE /\ HeldSteps < MaxSteps
            /\ Execution' = [Execution EXCEPT !.StepRun = sr]
            /\ mem' = [mem EXCEPT ![Env] = MapMerge(@, sr.Step.Environment)]
            /\ Returned("SetStep", Ok)
            /\ UNCHANGED <<Env, GithubJob, Job, Steps, Needs, Matrix, declared>>

SetStep(sr) ==
    /\ Alive
    /\ IF Execution.JobRun = Nil
       THEN Failed("SetStep", ErrNoJob)
       ELSE /\ HeldSteps < MaxSteps
            /\ Execution' = [Execution EXCEPT !.StepRun = sr]
            /\ mem' = [mem EXCEPT ![Env] = MapMerge(@, sr.Step.Environment)]
            /\ Returned("SetStep", Ok)
            /\ UNCHANGED <<Env, GithubJob, Job, Steps, Needs, Matrix, declared>>

\* The StepContext stored for the retiring StepRun sr, over the entry sc found.
UpdatedStepContext(sc, sr) ==
    [sc EXCEPT !.State = sr.State,
               !.Summary = sr.Summary,
               !.Outputs = sr.Outputs,
               !.Outcome = sr.Outcome,
               !.Conclusion = sr.Conclusion]

\* The StepsContext after sr retires.
UpdatedSteps(steps, sr) ==
    LET sc == IF sr.Step.ID \in DOMAIN steps THEN steps[sr.Step.ID] ELSE ZeroStepContext
    IN  MapPut(steps, sr.Step.ID, UpdatedStepContext(sc, sr))

\* StepFiles without the test of the stage.
StepFilesAnyStage(sr, okReport, okSummary) ==
    (IF okReport THEN {"step_run.json"} ELSE {})
    \cup (IF sr.Summary # "" /\ okSummary THEN {"summary.md"} ELSE {})

\* The files UnsetStep writes for sr; okReport, okSummary: whether the writes succeed.
StepFiles(sr, okReport, okSummary) ==
    IF sr.Stage = StepStageMain
    THEN (IF okReport THEN {"step_run.json"} ELSE {})
         \cup (IF sr.Summary # "" /\ okSummary THEN {"summary.md"} ELSE {})
    ELSE {}

\* JobRun.Steps keeps one entry for a step: a later stage replaces the earlier one.
AppendedOncePerStep(steps, sr) ==
    IF \E i \in 1..Len(steps) : steps[i].Step.ID = sr.Step.ID
    THEN [i \in 1..Len(steps) |-> IF steps[i].Step.ID = sr.Step.ID THEN sr ELSE steps[i]]
    ELSE Append(steps, sr)

\* JobRun.Steps after sr retires.
AppendedSteps(steps, sr) == Append(steps, sr)

\* UnsetStep past its guard, with a step to retire.
RetireStep(okReport, okSummary) ==
    IF Execution.JobRun = Nil
    THEN Panicked("UnsetStep")
    ELSE LET sr == Execution.StepRun
             env == Execution.WorkflowRun.Workflow.Env
         IN  /\ Env' = env
             /\ mem' = [mem EXCEPT ![env] = MapMerge(@, Execution.JobRun.Job.Env)]
             /\ Execution' = [Execution EXCEPT !.JobRun.Steps = AppendedSteps(@, sr),
                                               !.StepRun = Nil]
             /\ Steps' = UpdatedSteps(Steps, sr)
             /\ Called("UnsetStep", <<>>, Ok, Nil, StepFiles(sr, TRUE, TRUE),
                       StepFiles(sr, okReport, okSummary))
             /\ UNCHANGED <<GithubJob, Job, Needs, Matrix, declared>>

\* UnsetStep without its guard: it dereferences the StepRun that is not there.
UnsetStepUnguarded(okReport, okSummary) ==
    /\ Alive
    /\ IF Execution.StepRun = Nil
       THEN Panicked("UnsetStep")
       ELSE RetireStep(okReport, okSummary)

UnsetStep(okReport, okSummary) ==
    /\ Alive
    /\ IF Execution.StepRun = Nil
       THEN Failed("UnsetStep", NoOp)
       ELSE RetireStep(okReport, okSummary)

\* A mutator of the active StepRun: it fails when no step is set.
OnStepRun(name, args, sr) ==
    /\ Alive
    /\ UNCHANGED <<Env, GithubJob, Job, Steps, Needs, Matrix, mem, declared>>
    /\ IF Execution.StepRun = Nil
       THEN /\ Called(name, args, ErrNoStep, Nil, {}, {})
            /\ UNCHANGED Execution
       ELSE /\ Execution' = [Execution EXCEPT !.StepRun = sr]
            /\ Called(name, args, Ok, Nil, {}, {})

\* SetStepResults with its two arguments stored the wrong way round.
SetStepResultsSwapped(conclusion, outcome) ==
    OnStepRun("SetStepResults", <<conclusion, outcome>>,
              [Execution.StepRun EXCEPT !.Conclusion = outcome, !.Outcome = conclusion])

SetStepResults(conclusion, outcome) ==
    OnStepRun("SetStepResults", <<conclusion, outcome>>,
              [Execution.StepRun EXCEPT !.Conclusion = conclusion, !.Outcome = outcome])

\* SetStepOutput that keeps the value a key already has.
SetStepOutputKeepingFirst(key, value) ==
    OnStepRun("SetStepOutput", <<key, value>>,
              [Execution.StepRun EXCEPT
                  !.Outputs = IF key \in DOMAIN @ THEN @ ELSE MapPut(@, key, value)])

SetStepOutput(key, value) ==
    OnStepRun("SetStepOutput", <<key, value>>,
              [Execution.StepRun EXCEPT !.Outputs = MapPut(@, key, value)])

SetStepSummary(summary) ==
    OnStepRun("SetStepSummary", <<summary>>,
              [Execution.StepRun EXCEPT !.Summary = summary])

SetStepState(key, value) ==
    OnStepRun("SetStepState", <<key, value>>,
              [Execution.StepRun EXCEPT !.State = MapPut(@, key, value)])

AddStepPath(path) ==
    /\ Execution.StepRun # Nil => Len(Execution.StepRun.Path) < MaxPath
    /\ OnStepRun("AddStepPath", <<path>>,
                 [Execution.StepRun EXCEPT !.Path = Append(@, path)])

SetStepEnv(key, value) ==
    OnStepRun("SetStepEnv", <<key, value>>,
              [Execution.StepRun EXCEPT !.Environment = MapPut(@, key, value)])

----------------------------------------------------------------------------
(* Expression variables *)

\* What GetVariable returns: a value and no error ...
Found(v) == [value |-> v, err |-> Ok]

\* An unknown name that yields an empty mapping instead of the error.
SilentDefault(name) == Found(EmptyMap)

\* ... or no value and the error.
UnknownVariable(name) == [value |-> Nil, err |-> "unknown variable: " \o name]

\* The mapping a context not bound yet stands for is the layered Env.
BoundToEnv == Deref(Env)

\* map[string]string{}, what a context that is not bound yet yields
Unbound == EmptyMap

\* math.Inf(1) and math.NaN()
Infinity == [float |-> "+Inf"]
NaN == [float |-> "NaN"]

\* The contexts no operation modelled here writes, as the construction leaves them.
Runner == [Name |-> ""]
Secrets == [Data |-> EmptyMap]
Inputs == EmptyMap

\* c.Github, of which the operations write the field Job
Github == [Job |-> GithubJob]

\* The receiver of Context.GetVariable: the context itself.
ThisContext == [type |-> "Context"]

\* An ExprContext with the job status and the steps context it holds.
ExprContext(status, steps) ==
    [type |-> "ExprContext",
     Github |-> [Job |-> ""],
     Runner |-> Runner,
     Job |-> [Status |-> status],
     Steps |-> steps,
     Secrets |-> Secrets,
     Inputs |-> EmptyMap]

NewExprContext == ExprContext(ConclusionSuccess, EmptyMap)

\* Context.GetVariable
ContextGetVariable(name) ==
    CASE name = "github" -> Found(Github)
      [] name = "runner" -> Found(Runner)
      [] name = "env" -> Found(Unbound)
      [] name = "vars" -> Found(Unbound)
      [] name = "job" -> Found(Job)
      [] name = "steps" -> Found(Steps)
      [] name = "secrets" -> Found(Secrets.Data)
      [] name = "strategy" -> Found(Unbound)
      [] name = "matrix" -> Found(Matrix)
      [] name = "needs" -> Found(Needs)
      [] name = "inputs" -> Found(Inputs)
      [] name = "infinity" -> Found(Infinity)
      [] name = "nan" -> Found(NaN)
      [] OTHER -> UnknownVariable(name)

\* ExprContext.GetVariable on the receiver c
ExprContextGetVariable(c, name) ==
    CASE name = "github" -> Found(c.Github)
      [] name = "runner" -> Found(c.Runner)
      [] name = "env" -> Found(Unbound)
      [] name = "vars" -> Found(Unbound)
      [] name = "job" -> Found(c.Job)
      [] name = "steps" -> Found(c.Steps)
      [] name = "secrets" -> Found(c.Secrets)
      [] name = "strategy" -> Found(Unbound)
      [] name = "matrix" -> Found(Unbound)
      [] name = "needs" -> Found(Unbound)
      [] name = "inputs" -> Found(c.Inputs)
      [] name = "infinity" -> Found(Infinity)
      [] name = "nan" -> Found(NaN)
      [] OTHER -> UnknownVariable(name)

\* The expression evaluator asks the provider c for the variable name.
GetVariable(c, name) ==
    /\ Alive
    /\ LET r == IF c = ThisContext
                THEN ContextGetVariable(name)
                ELSE ExprContextGetVariable(c, name)
       IN  Called("GetVariable", <<c, name>>, r.err, r.value, {}, {})
    /\ UNCHANGED <<Execution, Env, GithubJob, Job, Steps, Needs, Matrix, mem, declared>>

----------------------------------------------------------------------------
(* Environment files *)

ErrRead == "read failed"
ErrSetenv == "setenv: invalid argument"

\* An environment file as ReadData / RawData finds it: its decoded content ...
File(data) == [err |-> FALSE, data |-> data]

\* ... or a read that fails.
Unreadable == [err |-> TRUE]

EnvironmentFiles(env, path, outputs, stepSummary) ==
    [Env |-> env, Path |-> path, Outputs |-> outputs, StepSummary |-> stepSummary]

\* os.Getenv
Getenv(environ, k) == IF k \in DOMAIN environ THEN environ[k] ELSE Segments("")

\* os.Setenv refuses an empty key.
InvalidKey(k) == k = ""

\* The orders in which a range over a map can yield the keys S.
Orders(S) ==
    {o \in [1..Cardinality(S) -> S] : \A i, j \in 1..Cardinality(S) : o[i] = o[j] => i = j}

\* The outputs are forwarded, but a key the step has already set keeps its value.
IngestedNewOutputs(sr, outputs) == [sr EXCEPT !.Outputs = MapMerge(outputs, @)]

\* The active StepRun after ec.SetStepOutput(k, v) for every decoded output.
IngestedOutputs(sr, outputs) == [sr EXCEPT !.Outputs = MapMerge(@, outputs)]

\* The active StepRun after ec.SetStepSummary(stepSummary).
IngestedSummary(sr, stepSummary) == [sr EXCEPT !.Summary = stepSummary]

\* ef: the files, or Nil.  The errors of SetStepOutput and SetStepSummary (no step
\* is set) are dropped.
processEnvironmentFiles(ef) ==
    /\ Alive
    /\ UNCHANGED <<Env, GithubJob, Job, Steps, Needs, Matrix, declared>>
    /\ IF ef = Nil
       THEN /\ Called("processEnvironmentFiles", <<ef>>, Ok, Nil, {}, {})
            /\ UNCHANGED <<Execution, mem>>
       ELSE IF ef.Env.err
       THEN /\ Called("processEnvironmentFiles", <<ef>>, ErrRead, Nil, {}, {})
            /\ UNCHANGED <<Execution, mem>>
       ELSE LET env == ef.Env.data
                invalid == {k \in DOMAIN env : InvalidKey(k)}
                valid == DOMAIN env \ invalid
            IN  \E set \in IF invalid = {} THEN {valid} ELSE SUBSET valid :
                LET environ == MapMerge(mem[ProcEnvRef], [k \in set |-> Segments(env[k])])
                IN  IF invalid # {}
                    THEN /\ Called("processEnvironmentFiles", <<ef>>, ErrSetenv, Nil, {}, {})
                         /\ mem' = [mem EXCEPT ![ProcEnvRef] = environ]
                         /\ UNCHANGED Execution
                    ELSE IF ef.Path.err
                    THEN /\ Called("processEnvironmentFiles", <<ef>>, ErrRead, Nil, {}, {})
                         /\ mem' = [mem EXCEPT ![ProcEnvRef] = environ]
                         /\ UNCHANGED Execution
                    ELSE \E paths \in Orders(DOMAIN ef.Path.data) :
                         LET path == Getenv(environ, "PATH") \o paths
                             sr == Execution.StepRun
                             withOutputs ==
                                 IF sr = Nil THEN sr ELSE IngestedOutputs(sr, ef.Outputs.data)
                             withSummary ==
                                 IF sr = Nil THEN sr
                                 ELSE IngestedSummary(withOutputs, ef.StepSummary.data)
                         IN  /\ Len(path) <= MaxPathEntries
                             /\ mem' = [mem EXCEPT ![ProcEnvRef] = MapPut(environ, "PATH", path)]
                             /\ IF ef.Outputs.err
                                THEN /\ Called("processEnvironmentFiles", <<ef>>, ErrRead,
                                               Nil, {}, {})
                                     /\ UNCHANGED Execution
                                ELSE IF ef.StepSummary.err
                                THEN /\ Called("processEnvironmentFiles", <<ef>>, ErrRead,
                                               Nil, {}, {})
                                     /\ Execution' = [Execution EXCEPT !.StepRun = withOutputs]
                                ELSE /\ Called("processEnvironmentFiles", <<ef>>, Ok, Nil,
                                               {}, {})
                                     /\ Execution' = [Execution EXCEPT !.StepRun = withSummary]

----------------------------------------------------------------------------
(* Any call, with arguments drawn from the sets of D, in an order Order allows *)

\* Calls come in any order, or in the order of the orchestrator.
AnyOrder == "any order"
Orchestrated == "orchestrated"

\* The conclusion the caller derives from the outcome of a step.
DerivedConclusion(outcome, continueOnError) ==
    IF continueOnError /\ outcome = ConclusionFailure THEN ConclusionSuccess ELSE outcome

\* The order in which the orchestrator calls: a workflow holds jobs one after the
\* other, a job holds steps one after the other, and the results of a step are its
\* outcome and the conclusion derived from it.
InOrder ==
    /\ (last'.op = "SetStepResults" /\ Execution.StepRun # Nil) =>
          last'.args[1] = DerivedConclusion(last'.args[2],
                                            Execution.StepRun.Step.ContinueOnError)
    /\ last'.op = "SetWorkflow" => Execution.JobRun = Nil /\ Execution.StepRun = Nil
    /\ last'.op = "UnsetWorkflow" => Execution.WorkflowRun # Nil /\ Execution.JobRun = Nil
    /\ last'.op = "SetJob" => Execution.JobRun = Nil
    /\ last'.op = "UnsetJob" => Execution.JobRun # Nil /\ Execution.StepRun = Nil
    /\ last'.op = "SetStep" => Execution.StepRun = Nil

\* The step taken is one the order allows.
Allowed(order) == order = Orchestrated => InOrder

Next(D, order) ==
    \/ \E wr \in D.WorkflowRuns, env \in D.WorkflowEnvs : SetWorkflow(wr, env) /\ Allowed(order)
    \/ \E okReport, okCopy \in BOOLEAN : UnsetWorkflow(okReport, okCopy) /\ Allowed(order)
    \/ \E jr \in D.JobRuns : SetJob(jr) /\ Allowed(order)
    \/ \E okReport \in BOOLEAN : UnsetJob(okReport) /\ Allowed(order)
    \/ \E a \in D.JobResults : SetJobResults(a[1], a[2], a[3]) /\ Allowed(order)
    \/ \E a \in D.OutputWrites : CallerWritesOutputs(a[1], a[2], a[3]) /\ Allowed(order)
    \/ \E sr \in D.StepRuns : SetStep(sr) /\ Allowed(order)
    \/ \E okReport, okSummary \in BOOLEAN : UnsetStep(okReport, okSummary) /\ Allowed(order)
    \/ \E a \in D.StepResults : SetStepResults(a[1], a[2]) /\ Allowed(order)
    \/ \E a \in D.StepOutputs : SetStepOutput(a[1], a[2]) /\ Allowed(order)
    \/ \E t \in D.Summaries : SetStepSummary(t) /\ Allowed(order)
    \/ \E a \in D.StepStates : SetStepState(a[1], a[2]) /\ Allowed(order)
    \/ \E p \in D.Paths : AddStepPath(p) /\ Allowed(order)
    \/ \E a \in D.StepEnvs : SetStepEnv(a[1], a[2]) /\ Allowed(order)
    \/ \E c \in D.Providers, name \in D.Names : GetVariable(c, name) /\ Allowed(order)
    \/ \E ef \in D.EnvFiles : processEnvironmentFiles(ef) /\ Allowed(order)

----------------------------------------------------------------------------
(* Callers *)

\* A StepRun that comes with the results of an earlier stage of its step.
CarriedStepRun(id, env, stage) ==
    [StepRun(id, env, FALSE, stage) EXCEPT
        !.Conclusion = ConclusionSuccess,
        !.Outcome = ConclusionSuccess,
        !.Outputs = "k" :> "1",
        !.State = "k" :> "1",
        !.Summary = "text",
        !.Environment = "k" :> "1"]

\* A carried StepRun whose path list is as long as the model lets it grow.
SettledStepRun(id, env, stage) ==
    [CarriedStepRun(id, env, stage) EXCEPT !.Path = [i \in 1..MaxPath |-> "/bin"]]

\* Environment files that repeat the carried results and export nothing.
RepeatedFiles ==
    EnvironmentFiles(File(EmptyMap), File(EmptyMap), File("k" :> "1"), File("text"))

\* The step-level arguments of a caller that repeats the carried results, and the
\* one variable its expressions read.
RepeatedStepWrites ==
    [StepResults |-> {<<ConclusionSuccess, ConclusionSuccess>>},
     StepOutputs |-> {<<"k", "1">>},
     Summaries |-> {"text"},
     StepStates |-> {<<"k", "1">>},
     Paths |-> {"/bin"},
     StepEnvs |-> {<<"k", "1">>},
     EnvFiles |-> {RepeatedFiles},
     Providers |-> {ThisContext},
     Names |-> {"env"}]

\* Two jobs and a step.
TwoJobs ==
    [WorkflowRuns |-> {WorkflowRun(c) : c \in Conclusions \cup {ZeroConclusion}},
     WorkflowEnvs |-> {"A" :> "1"},
     JobRuns |-> {JobRun(id, "B" :> "2", {}, EmptyMap) : id \in {"j1", "j2"}},
     JobResults |-> {<<ConclusionFailure, ConclusionFailure, NilMap>>},
     OutputWrites |-> {<<OutputRef(1), "x", "v">>},
     StepRuns |-> {CarriedStepRun("s1", "A" :> "3", StepStageMain)}]
    @@ RepeatedStepWrites

Spec == Init /\ [][Next(TwoJobs, AnyOrder)]_vars

\* Jobs that retire with every conclusion, in any order.
JobConclusions ==
    [WorkflowRuns |-> {WorkflowRun(ZeroConclusion)},
     WorkflowEnvs |-> {EmptyMap},
     JobRuns |-> {JobRun(id, EmptyMap, {}, EmptyMap) : id \in {"j1", "j2"}},
     JobResults |-> {<<c, c, NilMap>> : c \in Conclusions},
     OutputWrites |-> {<<OutputRef(1), "x", "v">>},
     StepRuns |-> {SettledStepRun("s1", EmptyMap, StepStageMain)}]
    @@ RepeatedStepWrites

SpecConclusions == Init /\ [][Next(JobConclusions, AnyOrder)]_vars

\* Workflows, jobs and steps that declare env, called in order.
EnvLayers ==
    [WorkflowRuns |-> {WorkflowRun(ZeroConclusion)},
     WorkflowEnvs |-> {EmptyMap, "A" :> "1"},
     JobRuns |-> {JobRun(id, env, {}, EmptyMap) :
                    id \in {"j1", "j2"}, env \in {EmptyMap, "B" :> "2"}},
     JobResults |-> {<<ConclusionSuccess, ConclusionSuccess, NilMap>>},
     OutputWrites |-> {<<OutputRef(1), "x", "v">>},
     StepRuns |-> {SettledStepRun(id, env, StepStageMain) :
                     id \in {"s1"}, env \in {EmptyMap, "A" :> "3"}}]
    @@ RepeatedStepWrites

SpecEnv == Init /\ [][Next(EnvLayers, Orchestrated)]_vars

\* Jobs that need each other and hand over outputs, called in order.
JobNeeds ==
    [WorkflowRuns |-> {WorkflowRun(ZeroConclusion)},
     WorkflowEnvs |-> {EmptyMap},
     JobRuns |-> {JobRun("j1", EmptyMap, {}, EmptyMap),
                  JobRun("j2", EmptyMap, {}, EmptyMap),
                  JobRun("j2", EmptyMap, {"j1"}, EmptyMap)},
     JobResults |-> {<<ConclusionSuccess, ConclusionSuccess, r>> : r \in OutputRefs}
                    \cup {<<ConclusionFailure, ConclusionFailure, NilMap>>},
     OutputWrites |-> {<<r, "x", "v">> : r \in OutputRefs}
                      \cup {<<OutputRef(1), "x", "w">>},
     StepRuns |-> {SettledStepRun("s1", EmptyMap, StepStageMain)}]
    @@ RepeatedStepWrites

SpecNeeds == Init /\ [][Next(JobNeeds, Orchestrated)]_vars

\* Steps taken through their stages, called in order; a stage starts with the
\* results carried from the stage before and with no outputs.
StepStages ==
    [WorkflowRuns |-> {WorkflowRun(ZeroConclusion)},
     WorkflowEnvs |-> {EmptyMap},
     JobRuns |-> {JobRun("j1", EmptyMap, {}, EmptyMap)},
     JobResults |-> {<<ConclusionSuccess, ConclusionSuccess, NilMap>>},
     OutputWrites |-> {<<OutputRef(1), "x", "v">>},
     StepRuns |-> {[SettledStepRun(id, EmptyMap, stage) EXCEPT !.Outputs = EmptyMap] :
                     id \in {"s1", "s2"}, stage \in Stages}]
    @@ RepeatedStepWrites

SpecStages == Init /\ [][Next(StepStages, Orchestrated)]_vars

\* A step that comes with two keys in each of its maps and is written again, in order.
StepWrites ==
    [WorkflowRuns |-> {WorkflowRun(ZeroConclusion)},
     WorkflowEnvs |-> {EmptyMap},
     JobRuns |-> {JobRun("j1", EmptyMap, {}, EmptyMap)},
     JobResults |-> {<<ConclusionSuccess, ConclusionSuccess, NilMap>>},
     OutputWrites |-> {<<OutputRef(1), "x", "v">>},
     StepRuns |-> {[SettledStepRun("s1", EmptyMap, StepStageMain) EXCEPT
                       !.Outputs = ("k" :> "1") @@ ("j" :> "1"),
                       !.State = ("k" :> "1") @@ ("j" :> "1"),
                       !.Environment = ("k" :> "1") @@ ("j" :> "1")]},
     StepOutputs |-> {<<"k", "1">>, <<"k", "2">>},
     StepStates |-> {<<"k", "1">>, <<"k", "2">>},
     StepEnvs |-> {<<"k", "1">>, <<"k", "2">>},
     EnvFiles |-> {EnvironmentFiles(File(EmptyMap), File(EmptyMap),
                                    File(("k" :> "1") @@ ("j" :> "1")), File("text"))}]
    @@ RepeatedStepWrites

SpecStepWrites == Init /\ [][Next(StepWrites, Orchestrated)]_vars

\* A step taken through its stages with and without a summary, called in order.
StepReports ==
    [WorkflowRuns |-> {WorkflowRun(ZeroConclusion)},
     WorkflowEnvs |-> {EmptyMap},
     JobRuns |-> {JobRun("j1", EmptyMap, {}, EmptyMap)},
     JobResults |-> {<<ConclusionSuccess, ConclusionSuccess, NilMap>>},
     OutputWrites |-> {<<OutputRef(1), "x", "v">>},
     StepRuns |-> {[SettledStepRun("s1", EmptyMap, stage) EXCEPT !.Summary = t] :
                     stage \in Stages, t \in {"", "text"}}]
    @@ RepeatedStepWrites

SpecReports == Init /\ [][Next(StepReports, Orchestrated)]_vars

\* The names the expressions may ask for, known and not.
VariableNames ==
    {"github", "runner", "env", "vars", "job", "steps", "secrets", "strategy", "matrix",
     "needs", "inputs", "infinity", "nan", "bogus", "jobs", "ENV", ""}

\* A job with a matrix and a step, env declared at every level, calls in any order,
\* and expressions that ask either provider for any name.
Variables ==
    [WorkflowRuns |-> {WorkflowRun(ZeroConclusion)},
     WorkflowEnvs |-> {"A" :> "1"},
     JobRuns |-> {JobRun("j1", "B" :> "2", {}, "os" :> "linux")},
     JobResults |-> {<<ConclusionFailure, ConclusionFailure, NilMap>>},
     OutputWrites |-> {<<OutputRef(1), "x", "v">>},
     StepRuns |-> {SettledStepRun("s1", "A" :> "3", StepStageMain)},
     Providers |-> {ThisContext, NewExprContext,
                    ExprContext(ConclusionFailure,
                                "s1" :> [ZeroStepContext EXCEPT !.Outputs = "k" :> "1"])},
     Names |-> VariableNames]
    @@ RepeatedStepWrites

SpecVariables == Init /\ [][Next(Variables, AnyOrder)]_vars

\* Two steps, the first of which continues on error, that end with every outcome,
\* called in order.
StepOutcomes ==
    [WorkflowRuns |-> {WorkflowRun(ZeroConclusion)},
     WorkflowEnvs |-> {EmptyMap},
     JobRuns |-> {JobRun("j1", EmptyMap, {}, EmptyMap)},
     JobResults |-> {<<ConclusionSuccess, ConclusionSuccess, NilMap>>},
     OutputWrites |-> {<<OutputRef(1), "x", "v">>},
     StepRuns |-> {[SettledStepRun(id, EmptyMap, StepStageMain) EXCEPT
                       !.Step.ContinueOnError = (id = "s1"),
                       !.Conclusion = ZeroConclusion,
                       !.Outcome = ZeroConclusion] : id \in {"s1", "s2"}},
     StepResults |-> Conclusions \X Conclusions]
    @@ RepeatedStepWrites

SpecOutcomes == Init /\ [][Next(StepOutcomes, Orchestrated)]_vars

\* The files a step leaves: an export, two PATH entries, two outputs and no summary.
StepLeftFiles ==
    EnvironmentFiles(File("X" :> "1"), File(("/a" :> "") @@ ("/b" :> "")),
                     File(("k" :> "2") @@ ("j" :> "1")), File(""))

\* Those files, each of them unreadable in turn or with a key os.Setenv refuses,
\* and no files at all.
FilesRead ==
    {Nil, StepLeftFiles,
     [StepLeftFiles EXCEPT !.Env = Unreadable],
     [StepLeftFiles EXCEPT !.Path = Unreadable],
     [StepLeftFiles EXCEPT !.Outputs = Unreadable],
     [StepLeftFiles EXCEPT !.StepSummary = Unreadable],
     [StepLeftFiles EXCEPT !.Env = File(("X" :> "1") @@ ("" :> "1"))]}

\* A step with an output and a summary whose environment files are ingested, in order.
Ingestion ==
    [WorkflowRuns |-> {WorkflowRun(ZeroConclusion)},
     WorkflowEnvs |-> {EmptyMap},
     JobRuns |-> {JobRun("j1", EmptyMap, {}, EmptyMap)},
     JobResults |-> {<<ConclusionSuccess, ConclusionSuccess, NilMap>>},
     OutputWrites |-> {<<OutputRef(1), "x", "v">>},
     StepRuns |-> {SettledStepRun("s1", EmptyMap, StepStageMain)},
     EnvFiles |-> FilesRead]
    @@ RepeatedStepWrites

SpecIngestion == Init /\ [][Next(Ingestion, Orchestrated)]_vars

\* A job with a matrix and one without, that end with outputs or fail, and a step,
\* calls in any order.
JobRecords ==
    [WorkflowRuns |-> {WorkflowRun(ZeroConclusion)},
     WorkflowEnvs |-> {EmptyMap},
     JobRuns |-> {JobRun("j1", EmptyMap, {}, "os" :> "linux"),
                  JobRun("j2", EmptyMap, {}, EmptyMap)},
     JobResults |-> {<<ConclusionSuccess, ConclusionSuccess, OutputRef(1)>>,
                     <<ConclusionSuccess, ConclusionFailure, OutputRef(1)>>,
                     <<ConclusionFailure, ConclusionFailure, NilMap>>},
     OutputWrites |-> {<<OutputRef(1), "x", "v">>},
     StepRuns |-> {SettledStepRun("s1", EmptyMap, StepStageMain)}]
    @@ RepeatedStepWrites

SpecJobs == Init /\ [][Next(JobRecords, AnyOrder)]_vars

----------------------------------------------------------------------------
(* Claims *)

\* C1: within one workflow run the workflow conclusion changes at most once: it
\* changes only from success, only in UnsetJob, and to the conclusion of the
\* retiring job, which is not success; the first job that retires with another
\* conclusion than success does change it, and no call changes it afterwards.
C1_ConclusionStep ==
    (Execution.WorkflowRun # Nil /\ last'.op # "SetWorkflow") =>
        LET wc == Execution.WorkflowRun.Conclusion
            wc2 == Execution'.WorkflowRun.Conclusion
        IN  /\ wc # ConclusionSuccess => wc2 = wc
            /\ wc2 # wc =>
                  /\ last'.op = "UnsetJob"
                  /\ wc2 = Execution.JobRun.Conclusion
                  /\ wc2 # ConclusionSuccess
            /\ ( /\ last'.op = "UnsetJob"
                 /\ last'.ret = Ok
                 /\ wc = ConclusionSuccess
                 /\ Execution.JobRun.Conclusion # ConclusionSuccess )
               => wc2 = Execution.JobRun.Conclusion

C1_FirstFailureWins == [][C1_ConclusionStep]_vars

\* A job retired with cancelled after the workflow conclusion had become failure.
C1_Witness ==
    /\ last.op = "UnsetJob"
    /\ Execution.WorkflowRun # Nil
    /\ Execution.WorkflowRun.Conclusion = ConclusionFailure
    /\ \E id \in DOMAIN Execution.WorkflowRun.Jobs :
          Execution.WorkflowRun.Jobs[id].Conclusion = ConclusionCancelled
    /\ \E id \in DOMAIN Execution.WorkflowRun.Jobs :
          Execution.WorkflowRun.Jobs[id].Conclusion = ConclusionFailure

\* C2: right after UnsetStep has retired a step, Env is the env the workflow declared
\* overridden by the env the job declares.
C2_EnvAfterUnsetStep ==
    (last.op = "UnsetStep" /\ last.ret = Ok) =>
        Deref(Env) = MapMerge(declared, Execution.JobRun.Job.Env)

\* C3: while a step is active, Env is the env the workflow declared, overridden by
\* the env the job declares, overridden by the env the step declares.
C3_EnvInStep ==
    Execution.StepRun # Nil =>
        Deref(Env) = MapMerge(MapMerge(declared, Execution.JobRun.Job.Env),
                              Execution.StepRun.Step.Environment)

\* C4: right after UnsetJob, Env is the env the workflow declared.
C4_EnvAfterUnsetJob ==
    (last.op = "UnsetJob" /\ last.ret = Ok) => Deref(Env) = declared

\* C5: SetJob fails exactly when no workflow is set, SetStep and SetJobResults
\* exactly when no job is set, and the mutators of the step exactly when no step is
\* set; each returns no error otherwise.
StepMutators ==
    {"SetStepResults", "SetStepOutput", "SetStepSummary", "SetStepState", "SetStepEnv",
     "AddStepPath"}

C5_CallStep ==
    /\ last'.op = "SetJob" =>
          last'.ret = IF Execution.WorkflowRun = Nil THEN ErrNoWorkflow ELSE Ok
    /\ last'.op \in {"SetStep", "SetJobResults"} =>
          last'.ret = IF Execution.JobRun = Nil THEN ErrNoJob ELSE Ok
    /\ last'.op \in StepMutators =>
          last'.ret = IF Execution.StepRun = Nil THEN ErrNoStep ELSE Ok

C5_NestingErrors == [][C5_CallStep]_vars

\* A mutator of the step failed between two steps of an active job.
C5_Witness ==
    /\ last.op \in StepMutators
    /\ last.ret = ErrNoStep
    /\ Execution.JobRun # Nil
    /\ Len(Execution.JobRun.Steps) > 0

\* C6: a step is active only within an active job, and a job only within an active
\* workflow.
C6_StrictNesting ==
    /\ Execution.StepRun # Nil => Execution.JobRun # Nil
    /\ Execution.JobRun # Nil => Execution.WorkflowRun # Nil

\* C7: an UnsetStep that retires a step at another stage than main leaves the
\* StepsContext as it is.
C7_StageStep ==
    ( /\ last'.op = "UnsetStep"
      /\ Execution.StepRun # Nil
      /\ Execution.StepRun.Stage # StepStageMain )
    => Steps' = Steps

C7_OnlyMainUpdatesSteps == [][C7_StageStep]_vars

\* What the expressions of the active job see in NeedsContext.
NeedsValue ==
    [k \in DOMAIN Needs |->
        [Result |-> Needs[k].Result, Outputs |-> Deref(Needs[k].Outputs)]]

\* C8, for the needs that have retired: NeedsContext holds the conclusion and the
\* outputs of the record of each.
C8_RetiredNeeds ==
    (last.op = "SetJob" /\ last.ret = Ok) =>
        LET jr == Execution.JobRun
            jobs == Execution.WorkflowRun.Jobs
        IN  \A n \in jr.Job.Needs \cap (DOMAIN jobs \ {jr.Job.ID}) :
                /\ n \in DOMAIN Needs
                /\ Needs[n].Result = jobs[n].Conclusion
                /\ Needs[n].Outputs = jobs[n].Outputs

\* C8: right after SetJob, NeedsContext holds for each retired job the job needs the
\* conclusion and the outputs it retired with, and no entry under a key that is not
\* one of the job's needs.
C8_NeedsAtSetJob ==
    /\ C8_RetiredNeeds
    /\ (last.op = "SetJob" /\ last.ret = Ok) =>
          DOMAIN Needs \subseteq Execution.JobRun.Job.Needs

\* C9: nothing but a SetJob changes a result or the outputs seen in NeedsContext.
C9_NeedsStep == last'.op # "SetJob" => NeedsValue' = NeedsValue

C9_NeedsIsSnapshot == [][C9_NeedsStep]_vars

\* C10: right after SetWorkflow the workflow conclusion is success and neither a
\* job nor a step is active.
C10_AfterSetWorkflow ==
    last.op = "SetWorkflow" =>
        /\ Execution.WorkflowRun # Nil
        /\ Execution.WorkflowRun.Conclusion = ConclusionSuccess
        /\ Execution.JobRun = Nil
        /\ Execution.StepRun = Nil

\* SetWorkflow was called while a job was active and after a job had failed.
C10_Witness ==
    /\ last.op = "SetWorkflow"
    /\ GithubJob # ""
    /\ Job.Status = ConclusionFailure

\* The map m2 is the map m with the value v written under the key k: k holds v and
\* every other key is there as before, with the value it had.
LastWriteWins(m, m2, k, v) ==
    /\ DOMAIN m2 = DOMAIN m \cup {k}
    /\ m2[k] = v
    /\ \A x \in DOMAIN m \ {k} : m2[x] = m[x]

\* C11: a SetStepOutput(k, v) that succeeds leaves v under k in the Outputs of the
\* active step, whatever k held before, and every other key with its value; so do
\* SetStepState on State and SetStepEnv on Environment.
C11_WriteStep ==
    LET sr == Execution.StepRun
        sr2 == Execution'.StepRun
        k == last'.args[1]
        v == last'.args[2]
    IN  /\ (last'.op = "SetStepOutput" /\ last'.ret = Ok) =>
              LastWriteWins(sr.Outputs, sr2.Outputs, k, v)
        /\ (last'.op = "SetStepState" /\ last'.ret = Ok) =>
              LastWriteWins(sr.State, sr2.State, k, v)
        /\ (last'.op = "SetStepEnv" /\ last'.ret = Ok) =>
              LastWriteWins(sr.Environment, sr2.Environment, k, v)

C11_LastWriteWins == [][C11_WriteStep]_vars

\* The key k of Outputs, which held "1", holds "2" after SetStepOutput("k", "2"), next
\* to the key j.
C11_Witness ==
    /\ last.op = "SetStepOutput"
    /\ last.args = <<"k", "2">>
    /\ last.ret = Ok
    /\ Execution.StepRun.Outputs = ("k" :> "2") @@ ("j" :> "1")

\* C12: an UnsetStep that retires a step tries to write step_run.json exactly when
\* the stage of the step is main, and summary.md exactly when the stage is main and
\* the summary of the step is not empty; it writes no file it did not try to write,
\* so none at another stage.
C12_ReportStep ==
    (last'.op = "UnsetStep" /\ last'.ret = Ok) =>
        LET sr == Execution.StepRun IN
        /\ "step_run.json" \in last'.tried <=> sr.Stage = StepStageMain
        /\ "summary.md" \in last'.tried <=> (sr.Stage = StepStageMain /\ sr.Summary # "")
        /\ last'.tried \subseteq {"step_run.json", "summary.md"}
        /\ last'.wrote \subseteq last'.tried

C12_ReportsOfMainStage == [][C12_ReportStep]_vars

\* A step retired at the stage pre with a summary and wrote nothing, then retired
\* at the stage main without a summary and wrote the report alone.
C12_Witness ==
    /\ last.op = "UnsetStep"
    /\ last.wrote = {"step_run.json"}
    /\ Execution.JobRun # Nil
    /\ Len(Execution.JobRun.Steps) = 2
    /\ Execution.JobRun.Steps[1].Stage = StepStagePre
    /\ Execution.JobRun.Steps[1].Summary = "text"
    /\ Execution.JobRun.Steps[2].Stage = StepStageMain
    /\ Execution.JobRun.Steps[2].Summary = ""

\* The state of the runs and of the contexts: everything but the record of the call.
RunState == <<Execution, Env, GithubJob, Job, Steps, Needs, Matrix, mem>>

\* C13, UnsetStep: with a step and a job active it returns, the step is retired into
\* JobRun.Steps and into StepsContext and Env is reset, whatever became of the
\* writes; without them the state is as before.
C13_UnsetStep ==
    last'.op = "UnsetStep" =>
        IF Execution.StepRun = Nil \/ Execution.JobRun = Nil
        THEN RunState' = RunState
        ELSE LET sr == Execution.StepRun
                 wfEnv == Execution.WorkflowRun.Workflow.Env
             IN  /\ last'.ret = Ok
                 /\ Execution'.StepRun = Nil
                 /\ Execution'.WorkflowRun = Execution.WorkflowRun
                 /\ Execution'.JobRun =
                       [Execution.JobRun EXCEPT !.Steps = Append(@, sr)]
                 /\ DOMAIN Steps' = DOMAIN Steps \cup {sr.Step.ID}
                 /\ \A id \in DOMAIN Steps \ {sr.Step.ID} : Steps'[id] = Steps[id]
                 /\ Steps'[sr.Step.ID] =
                       [State |-> sr.State, Summary |-> sr.Summary, Outputs |-> sr.Outputs,
                        Outcome |-> sr.Outcome, Conclusion |-> sr.Conclusion]
                 /\ Env' = wfEnv
                 /\ mem' = [mem EXCEPT ![wfEnv] = MapMerge(@, Execution.JobRun.Job.Env)]
                 /\ <<GithubJob, Job, Needs, Matrix>>' = <<GithubJob, Job, Needs, Matrix>>

\* C13, UnsetJob: with a job active it returns, the job is written back, the workflow
\* conclusion follows the rule of the first failure, the job is retired and Env and
\* Matrix are reset, whatever became of the write.
C13_UnsetJob ==
    last'.op = "UnsetJob" =>
        IF Execution.JobRun = Nil
        THEN RunState' = RunState
        ELSE LET jr == Execution.JobRun
                 wr == Execution.WorkflowRun
             IN  /\ last'.ret = Ok
                 /\ Execution'.JobRun = Nil
                 /\ Execution'.StepRun = Execution.StepRun
                 /\ Execution'.WorkflowRun.Jobs = MapPut(wr.Jobs, jr.Job.ID, jr)
                 /\ Execution'.WorkflowRun.Conclusion =
                       IF wr.Conclusion = ConclusionSuccess THEN jr.Conclusion
                       ELSE wr.Conclusion
                 /\ Execution'.WorkflowRun.Workflow = wr.Workflow
                 /\ GithubJob' = ""
                 /\ Env' = wr.Workflow.Env
                 /\ Matrix' = EmptyMap
                 /\ <<Job, Steps, Needs, mem>>' = <<Job, Steps, Needs, mem>>

\* C13, UnsetWorkflow: with a workflow active it returns, and it changes nothing,
\* whatever became of the write and of the copy.
C13_UnsetWorkflow ==
    last'.op = "UnsetWorkflow" =>
        /\ RunState' = RunState
        /\ Execution.WorkflowRun # Nil => last'.ret = Ok

\* C13: what UnsetStep, UnsetJob and UnsetWorkflow leave of the runs and of the
\* contexts follows from the state they are called in alone, not from the success
\* of a write, and they return in both cases.
C13_FailedWriteKeepsState ==
    [][C13_UnsetStep /\ C13_UnsetJob /\ C13_UnsetWorkflow]_vars

\* A job with the conclusion failure was retired though its report was not written.
C13_Witness ==
    /\ last.op = "UnsetJob"
    /\ last.ret = Ok
    /\ last.tried = {"job_run.json"}
    /\ last.wrote = {}
    /\ Execution.JobRun = Nil
    /\ Execution.WorkflowRun.Conclusion = ConclusionFailure

\* The names GetVariable knows.
RecognizedNames ==
    {"github", "runner", "env", "vars", "job", "steps", "secrets", "strategy", "matrix",
     "needs", "inputs", "infinity", "nan"}

\* C14: GetVariable returns a value and no error for a name it knows, and no value
\* and the error "unknown variable" for every other name, from either provider and
\* in every state.
C14_UnknownNamesFail ==
    last.op = "GetVariable" =>
        LET name == last.args[2] IN
        IF name \in RecognizedNames
        THEN last.ret = Ok /\ last.value # Nil
        ELSE last.ret = "unknown variable: " \o name /\ last.value = Nil

\* The context was asked for "bogus" while a step was active.
C14_Witness ==
    /\ last.op = "GetVariable"
    /\ last.args = <<ThisContext, "bogus">>
    /\ last.ret # Ok
    /\ Execution.StepRun # Nil

\* C15: GetVariable yields the empty mapping for env, vars and strategy, from either
\* provider and in every state.
C15_EnvVarsStrategyEmpty ==
    (last.op = "GetVariable" /\ last.args[2] \in {"env", "vars", "strategy"}) =>
        last.ret = Ok /\ last.value = EmptyMap

\* The context was asked for env while a step was active and the layered Env held
\* the entries of the workflow, of the job and of the step.
C15_Witness ==
    /\ last.op = "GetVariable"
    /\ last.args = <<ThisContext, "env">>
    /\ last.value = EmptyMap
    /\ Execution.StepRun # Nil
    /\ Execution.JobRun # Nil
    /\ Deref(Env) = ("A" :> "3") @@ ("B" :> "2")

\* The conclusion follows from the outcome and the continue-on-error flag.
Derived(conclusion, outcome, continueOnError) ==
    IF continueOnError /\ outcome = ConclusionFailure
    THEN conclusion = ConclusionSuccess
    ELSE conclusion = outcome

DerivedRun(sr) == Derived(sr.Conclusion, sr.Outcome, sr.Step.ContinueOnError)

\* C16, the StepRuns: the active StepRun and every entry of the Steps of the active
\* JobRun and of the job map hold a derived conclusion.
C16_StepRuns ==
    /\ Execution.StepRun # Nil => DerivedRun(Execution.StepRun)
    /\ Execution.JobRun # Nil =>
          \A i \in 1..Len(Execution.JobRun.Steps) : DerivedRun(Execution.JobRun.Steps[i])
    /\ Execution.WorkflowRun # Nil =>
          \A id \in DOMAIN Execution.WorkflowRun.Jobs :
              \A i \in 1..Len(Execution.WorkflowRun.Jobs[id].Steps) :
                  DerivedRun(Execution.WorkflowRun.Jobs[id].Steps[i])

\* C16, the StepContexts: the one UnsetStep stores for a step holds the conclusion
\* derived from the outcome and the flag of that step.
C16_StepContext ==
    (last'.op = "UnsetStep" /\ last'.ret = Ok) =>
        LET sr == Execution.StepRun
            sc == Steps'[sr.Step.ID]
        IN  Derived(sc.Conclusion, sc.Outcome, sr.Step.ContinueOnError)

C17_Detached ==
    (last.op = "UnsetWorkflow" /\ last.ret = Ok) => Execution.WorkflowRun = Nil

\* C17, the next call: a SetJob that comes right after UnsetWorkflow fails with the
\* error that no workflow is set.
C17_SetJobFails ==
    (last.op = "UnsetWorkflow" /\ last.ret = Ok /\ last'.op = "SetJob") =>
        last'.ret = ErrNoWorkflow

\* C17: UnsetWorkflow detaches the WorkflowRun, and a SetJob issued before the next
\* SetWorkflow fails.
C17_UnsetWorkflowDetaches == []C17_Detached /\ [][C17_SetJobFails]_vars

\* C18: when processEnvironmentFiles is given files, a step is active and it returns
\* no error, the Outputs of the active step hold every pair decoded from the outputs
\* file and its Summary is the text decoded from the summary file.
C18_IngestStep ==
    LET ef == last'.args[1]
        sr2 == Execution'.StepRun
    IN  ( /\ last'.op = "processEnvironmentFiles"
          /\ last'.ret = Ok
          /\ ef # Nil
          /\ Execution.StepRun # Nil )
        =>  /\ sr2 # Nil
            /\ \A k \in DOMAIN ef.Outputs.data :
                   k \in DOMAIN sr2.Outputs /\ sr2.Outputs[k] = ef.Outputs.data[k]
            /\ sr2.Summary = ef.StepSummary.data

C18_IngestedOutputsAndSummary == [][C18_IngestStep]_vars

\* The files were ingested: the output k of the step, which was "1", is "2", j is
\* there, the summary "text" gave way to the empty one of the file, and the export
\* and the PATH entries reached the process.
C18_Witness ==
    /\ last.op = "processEnvironmentFiles"
    /\ last.ret = Ok
    /\ last.args = <<StepLeftFiles>>
    /\ Execution.StepRun # Nil
    /\ Execution.StepRun.Outputs = ("k" :> "2") @@ ("j" :> "1")
    /\ Execution.StepRun.Summary = ""
    /\ Len(mem[ProcEnvRef]["PATH"]) = MaxPathEntries
    /\ "X" \in DOMAIN mem[ProcEnvRef]

\* C19: an UnsetStep that finds no active StepRun returns at once: the runs, Env,
\* JobRun.Steps, StepsContext and the other contexts are as before, and it neither
\* writes nor tries to write a file.
C19_NoStepToRetire ==
    (last'.op = "UnsetStep" /\ Execution.StepRun = Nil) =>
        /\ last'.ret = NoOp
        /\ RunState' = RunState
        /\ last'.tried = {}
        /\ last'.wrote = {}

C19_UnsetStepNoOp == [][C19_NoStepToRetire]_vars

\* UnsetStep was called again after it had retired a step of the active job.
C19_Witness ==
    /\ last.op = "UnsetStep"
    /\ last.ret = NoOp
    /\ Execution.StepRun = Nil
    /\ Execution.JobRun # Nil
    /\ Len(Execution.JobRun.Steps) > 0
    /\ DOMAIN Steps # {}

\* C20: an UnsetStep with a step active in an active job returns and puts the
\* retiring StepRun, as it is, at the end of JobRun.Steps, at every stage and whether
\* or not the step is there already; no other call on the active job changes
\* JobRun.Steps.
C20_HistoryStep ==
    /\ (last'.op = "UnsetStep" /\ Execution.StepRun # Nil /\ Execution.JobRun # Nil) =>
          /\ last'.ret = Ok
          /\ Execution'.JobRun # Nil
          /\ Execution'.JobRun.Steps = Append(Execution.JobRun.Steps, Execution.StepRun)
    /\ ( /\ last'.op \notin {"UnsetStep", "SetJob"}
         /\ Execution.JobRun # Nil
         /\ Execution'.JobRun # Nil ) =>
          Execution'.JobRun.Steps = Execution.JobRun.Steps

C20_StepsHistoryAppends == [][C20_HistoryStep]_vars

\* The step s1 was retired at the stage pre and again at the stage main: it is in
\* JobRun.Steps twice, in that order.
C20_Witness ==
    /\ last.op = "UnsetStep"
    /\ Execution.JobRun # Nil
    /\ Len(Execution.JobRun.Steps) = 2
    /\ Execution.JobRun.Steps[1].Step.ID = "s1"
    /\ Execution.JobRun.Steps[1].Stage = StepStagePre
    /\ Execution.JobRun.Steps[2].Step.ID = "s1"
    /\ Execution.JobRun.Steps[2].Stage = StepStageMain

\* C21, the state: the active JobRun has a record under its job ID in the job map.
C21_Registered ==
    Execution.JobRun # Nil =>
        /\ Execution.WorkflowRun # Nil
        /\ Execution.JobRun.Job.ID \in DOMAIN Execution.WorkflowRun.Jobs

\* C21, the calls: within a workflow run no record leaves the job map, and an
\* UnsetJob with a job active stores the JobRun as it is then (the conclusion, the
\* outcome and the outputs set last, and the steps retired) under its job ID, leaves
\* no JobRun active and the Matrix empty.
C21_JobStep ==
    /\ (Execution.WorkflowRun # Nil /\ last'.op # "SetWorkflow") =>
          DOMAIN Execution.WorkflowRun.Jobs \subseteq DOMAIN Execution'.WorkflowRun.Jobs
    /\ (last'.op = "UnsetJob" /\ Execution.JobRun # Nil) =>
          /\ last'.ret = Ok
          /\ Execution'.WorkflowRun.Jobs[Execution.JobRun.Job.ID] = Execution.JobRun
          /\ Execution'.JobRun = Nil
          /\ Matrix' = EmptyMap

\* C21: a JobRun is in the job map from SetJob on, and after UnsetJob the record
\* carries its final state, no JobRun is active and the Matrix is empty.
C21_JobMapHoldsFinalState == []C21_Registered /\ [][C21_JobStep]_vars

\* The job j1, which ran with a matrix, retired after a step with the conclusion
\* success, the outcome failure and the outputs map it was given.
C21_Witness ==
    /\ last.op = "UnsetJob"
    /\ last.ret = Ok
    /\ Execution.JobRun = Nil
    /\ Matrix = EmptyMap
    /\ "j1" \in DOMAIN Execution.WorkflowRun.Jobs
    /\ Execution.WorkflowRun.Jobs["j1"].Matrix # EmptyMap
    /\ Execution.WorkflowRun.Jobs["j1"].Conclusion = ConclusionSuccess
    /\ Execution.WorkflowRun.Jobs["j1"].Outcome = ConclusionFailure
    /\ Execution.WorkflowRun.Jobs["j1"].Outputs = OutputRef(1)
    /\ Len(Execution.WorkflowRun.Jobs["j1"].Steps) > 0

\* C22: after a SetJobResults that succeeds, the conclusion, the outcome and the
\* outputs of the active JobRun are the arguments and the status of the job context
\* is that conclusion; the conclusion of the workflow and the job map are as before.
C22_ResultsStep ==
    (last'.op = "SetJobResults" /\ last'.ret = Ok) =>
        LET jr2 == Execution'.JobRun IN
        /\ jr2 # Nil
        /\ jr2.Conclusion = last'.args[1]
        /\ jr2.Outcome = last'.args[2]
        /\ jr2.Outputs = last'.args[3]
        /\ Job'.Status = jr2.Conclusion
        /\ Execution'.WorkflowRun.Conclusion = Execution.WorkflowRun.Conclusion
        /\ Execution'.WorkflowRun.Jobs = Execution.WorkflowRun.Jobs

C22_JobResultsStored == [][C22_ResultsStep]_vars

\* The job that started with the status success, in a workflow whose conclusion is
\* success, was given the conclusion failure.
C22_Witness ==
    /\ last.op = "SetJobResults"
    /\ last.ret = Ok
    /\ last.args = <<ConclusionFailure, ConclusionFailure, NilMap>>
    /\ Job.Status = ConclusionFailure
    /\ Execution.WorkflowRun.Conclusion = ConclusionSuccess
    /\ Execution.WorkflowRun.Jobs[Execution.JobRun.Job.ID].Conclusion = ZeroConclusion

\* What the provider c is to return for a name that depends on the state: the steps
\* and the job status it holds, and the Matrix and the Needs of the job that runs.
Snapshot(c, name) ==
    CASE name = "steps" -> IF c = ThisContext THEN Steps ELSE c.Steps
      [] name = "job" -> IF c = ThisContext THEN Job ELSE c.Job
      [] name = "matrix" -> Matrix
      [] name = "needs" -> Needs

\* C23, for the context: Context.GetVariable returns the StepsContext, the
\* NeedsContext, the Matrix and the job context as they are.
C23_ContextSnapshot ==
    ( /\ last.op = "GetVariable"
      /\ last.args[1] = ThisContext
      /\ last.args[2] \in {"steps", "needs", "matrix", "job"} )
    => last.ret = Ok /\ last.value = Snapshot(ThisContext, last.args[2])

\* C23: GetVariable returns for steps, needs, matrix and job what the context holds
\* at that moment, from either provider; none of them is a mapping that is always
\* empty.
C23_StateDependentNames ==
    (last.op = "GetVariable" /\ last.args[2] \in {"steps", "needs", "matrix", "job"}) =>
        last.ret = Ok /\ last.value = Snapshot(last.args[1], last.args[2])

\* The calls that fail when the run they need is not active.
Disciplined ==
    {"SetJob", "SetStep", "SetJobResults", "SetStepResults", "SetStepOutput",
     "SetStepSummary", "SetStepState", "SetStepEnv", "AddStepPath"}

\* C24: when one of these calls returns an error, the runs, Env, the job map, the
\* job field of the github context and the Steps, Needs, Matrix and Job contexts
\* are as before the call.
C24_FailedCall ==
    (last'.op \in Disciplined /\ last'.ret # Ok) =>
        /\ last'.ret \in {ErrNoWorkflow, ErrNoJob, ErrNoStep}
        /\ RunState' = RunState

C24_ErrorsChangeNothing == [][C24_FailedCall]_vars

\* SetStep failed between two jobs of a workflow, the step of the first job still
\* in the StepsContext.
C24_Witness ==
    /\ last.op = "SetStep"
    /\ last.ret = ErrNoJob
    /\ Execution.WorkflowRun # Nil
    /\ DOMAIN Execution.WorkflowRun.Jobs # {}
    /\ DOMAIN Steps # {}
    /\ Execution.StepRun = Nil

\* C25: the conclusion of the active workflow is one of success, failure, cancelled,
\* skipped and neutral.
C25_ConclusionInClosedSet ==
    Execution.WorkflowRun # Nil => Execution.WorkflowRun.Conclusion \in Conclusions

\* C26: right after SetJob the keys of NeedsContext are the job IDs the job declares
\* as its needs, one entry for each, whether or not that job is in the job map.
C26_OneEntryPerDeclaredNeed ==
    (last.op = "SetJob" /\ last.ret = Ok) => DOMAIN Needs = Execution.JobRun.Job.Needs

\* C27: right after a SetJob that succeeds, the status of the job context is the
\* conclusion of the workflow and the StepsContext is empty.
C27_JobStartsWithWorkflowConclusion ==
    (last.op = "SetJob" /\ last.ret = Ok) =>
        /\ Job.Status = Execution.WorkflowRun.Conclusion
        /\ Steps = EmptyMap

\* The job j2 started with the status failure, after the job j1 had retired with a
\* step and with the conclusion failure.
C27_Witness ==
    /\ last.op = "SetJob"
    /\ last.ret = Ok
    /\ Execution.JobRun.Job.ID = "j2"
    /\ Job.Status = ConclusionFailure
    /\ "j1" \in DOMAIN Execution.WorkflowRun.Jobs
    /\ Execution.WorkflowRun.Jobs["j1"].Conclusion = ConclusionFailure
    /\ Len(Execution.WorkflowRun.Jobs["j1"].Steps) > 0

\* C28: a processEnvironmentFiles that returns an error leaves the Outputs and the
\* Summary of the active StepRun as they were before the call.
C28_FailedIngestionKeepsStep ==
    [][(/\ last'.op = "processEnvironmentFiles"
        /\ last'.ret # Ok
        /\ Execution.StepRun # Nil)
       => /\ Execution'.StepRun.Outputs = Execution.StepRun.Outputs
          /\ Execution'.StepRun.Summary = Execution.StepRun.Summary]_vars

\* The files of a call that got as far as writing PATH: the files are there, the env
\* file was read and applied, and the path file was read.
ReachedPath(ef) ==
    /\ ef # Nil
    /\ ~ef.Env.err
    /\ \A k \in DOMAIN ef.Env.data : ~InvalidKey(k)
    /\ ~ef.Path.err

\* The value of PATH the call finds once it has applied the env file.
PathFound(environ, ef) ==
    IF "PATH" \in DOMAIN ef.Env.data THEN Segments(ef.Env.data["PATH"])
    ELSE Getenv(environ, "PATH")

\* C29: the PATH a processEnvironmentFiles leaves is the one every other run leaves
\* from the same initial PATH and the same entries of the path file: whatever the
\* order in which the entries are taken, the result is the value observed.
C29_PathIsDeterministic ==
    [][(last'.op = "processEnvironmentFiles" /\ ReachedPath(last'.args[1])) =>
          \A o \in Orders(DOMAIN last'.args[1].Path.data) :
              Getenv(mem'[ProcEnvRef], "PATH")
                  = PathFound(mem[ProcEnvRef], last'.args[1]) \o o]_vars

====
